---- MODULE Spec2Model ----
(***************************************************************************)
(* xcx-p2p: WebRTC negotiation over a polled spreadsheet relay.            *)
(*                                                                         *)
(*   relay      gas/main.js               doGet / doPost                   *)
(*   transport  sheet-signaling-channel   SheetSignalingChannel            *)
(*   engine     sharing-peer              SharingPeer                      *)
(*   blocks     block/index.js            ExtensionBlocks                  *)
(*                                                                         *)
(* Every action is one run of JavaScript from a task (block call, timer,   *)
(* fetch completion, peer-connection callback) up to the point where every *)
(* async function it entered is suspended on a fetch, on a peer-connection *)
(* operation or has returned.  An await of a value that is not a pending   *)
(* promise only yields to the microtask queue and is part of the same      *)
(* action.  A GET reaches the relay in the step that issues it; its        *)
(* response is a suspended continuation in conts.  A POST is in flight in  *)
(* posts until the relay handles it.                                       *)
(***************************************************************************)
EXTENDS Integers, Sequences, FiniteSets, TLC

\* ---------------------------------------------------------------- bounds
MaxAttempts == 1          \* negotiation attempts of each peer, two peers
MaxEngineAttempts == 2    \* negotiation attempts of the engine taken alone
MaxCands == 1             \* ICE candidates one peer connection gathers
MaxPollsInFlight == 1     \* poll requests of one channel awaiting a response
MaxRemote == 2            \* messages of a remote peer the engine taken alone polls
MaxSends == 2             \* sends to the transports taken alone
MaxDelivered == 4         \* messages delivered to the message handler taken alone
MaxLog == 5               \* calls and events in the log of one transport's life cycle
MaxRows == 3              \* rows written to the sheet of the relay taken alone
MaxRaceRows == 2          \* rows written to the sheet while executions of doGet overlap
MaxExecs == 2             \* executions of doGet under way for one client
MaxRemoteSends == 3       \* messages the remote peer of the answerer writes
MaxFileSends == 2         \* messages saved by the file channels
MaxSessionRows == 1       \* records written for the second session
MaxNameAttempts == 3      \* negotiation attempts of the engine called with two names

Peers == {"A", "B"}
SignalNames == {"room1"}
NoName == "null"
NoId == "undefined"

\* ----------------------------------------------------------------- relay
\* A message: offer and answer of connection gen, candidate n of it.
Msg(type, gen, n) == [type |-> type, gen |-> gen, n |-> n]

\* One row of the sheet (below the header row): SignalName, FromID, Message.
Row(sn, from, msg) == [sn |-> sn, from |-> from, msg |-> msg]

RemoveAt(s, i) == SubSeq(s, 1, i - 1) \o SubSeq(s, i + 1, Len(s))

\* A Message cell that JSON.parse rejects (the sheet was edited by hand).
Undecodable == Msg("not JSON", 0, 0)

\* The loop of doGet without the test rowFromId !== recipientId.
RECURSIVE GetLoopAnySender(_, _, _, _, _, _)
GetLoopAnySender(sheet, i, signalName, recipientId, messages, answerSent) ==
    IF i < 1 THEN [sheet |-> sheet, messages |-> messages, answerSent |-> answerSent,
                   threw |-> FALSE]
    ELSE LET row == sheet[i] IN
         IF row.sn = signalName /\ ~(answerSent \/ row.msg.type = "answer")
         THEN GetLoopAnySender(RemoveAt(sheet, i), i - 1, signalName, recipientId,
                               Append(messages, [from |-> row.from, message |-> row.msg]),
                               answerSent)
         ELSE GetLoopAnySender(sheet, i - 1, signalName, recipientId, messages,
                               answerSent \/ (row.sn = signalName /\ row.msg.type = "answer"))

\* doGet: rows visited from the last to the first; the request parameter
\* "action" is never read.  JSON.parse of a row of the session is not
\* guarded: when it throws, doGet ends there without a JSON response, and
\* the rows it deleted before stay deleted.
RECURSIVE GetLoop(_, _, _, _, _, _)
GetLoop(sheet, i, signalName, recipientId, messages, answerSent) ==
    IF i < 1 THEN [sheet |-> sheet, messages |-> messages, answerSent |-> answerSent,
                   threw |-> FALSE]
    ELSE LET row == sheet[i] IN
         IF row.sn = signalName /\ row.msg = Undecodable
         THEN [sheet |-> sheet, messages |-> <<>>, answerSent |-> answerSent, threw |-> TRUE]
         ELSE IF row.sn = signalName
         THEN LET seen == answerSent \/ row.msg.type = "answer" IN
              IF row.from # recipientId /\ ~seen
              THEN GetLoop(RemoveAt(sheet, i), i - 1, signalName, recipientId,
                           Append(messages, [from |-> row.from, message |-> row.msg]),
                           seen)
              ELSE GetLoop(sheet, i - 1, signalName, recipientId, messages, seen)
         ELSE GetLoop(sheet, i - 1, signalName, recipientId, messages, answerSent)

doGet(sheet, signalName, recipientId) ==
    LET r == GetLoop(sheet, Len(sheet), signalName, recipientId, <<>>, FALSE) IN
    [sheet |-> r.sheet,
     body |-> [kind |-> IF r.threw THEN "error" ELSE "array", items |-> r.messages],
     answerSent |-> r.answerSent]

\* doPost: an answer first removes every row of the session.
RECURSIVE PostLoop(_, _, _)
PostLoop(sheet, i, signalName) ==
    IF i < 1 THEN sheet
    ELSE IF sheet[i].sn = signalName
         THEN PostLoop(RemoveAt(sheet, i), i - 1, signalName)
         ELSE PostLoop(sheet, i - 1, signalName)

\* doPost without the removal that an answer triggers.
doPostKeepsRows(sheet, signalName, fromId, message) ==
    Append(sheet, Row(signalName, fromId, message))

doPost(sheet, signalName, fromId, message) ==
    LET cleared == IF message.type = "answer"
                   THEN PostLoop(sheet, Len(sheet), signalName)
                   ELSE sheet
    IN Append(cleared, Row(signalName, fromId, message))

\* ------------------------------------------------------------- variables
VARIABLES
    relay,      \* the SignalingMessages sheet, oldest row first
    posts,      \* POST requests sent and not yet handled by the relay
    chan,       \* SheetSignalingChannel fields, per peer
    eng,        \* SharingPeer fields, per peer
    pc,         \* the RTCPeerConnection held by SharingPeer.peerConnection
    timers,     \* pending negotiation timeouts (setTimeout), per peer
    promise,    \* the promise returned by startOffering / startAnswering
    conts,      \* suspended async functions, per peer
    relayed,    \* whether the relay of gas/main.js is part of the run
    limit,      \* attempts each peer may start (the bound of the run)
    remote,     \* messages the remote peer may still leave for the engine
    result,     \* what a direct call of a transport method returned
    hist,       \* transports taken alone: the last write the relay handled
    events,     \* what a listener of the channels' events recorded, if one listens
    execs       \* executions of doGet under way in the relay, when they overlap

vars == <<relay, posts, chan, eng, pc, timers, promise, conts, relayed, limit, remote,
          result, hist, events, execs>>

Attempts == 1 .. (MaxAttempts + MaxEngineAttempts)
NoPc == [gen |-> 0, signalingState |-> "closed", local |-> FALSE, remote |-> FALSE,
         connectionState |-> "closed", applied |-> <<>>, cands |-> 0, answers |-> 0]

Start ==
    /\ relay = <<>>
    /\ posts = {}
    /\ chan = [p \in Peers |-> [connected |-> FALSE, signalName |-> NoName,
                                signalingState |-> "disconnected", pollInterval |-> FALSE,
                                intervals |-> 0]]
    /\ eng = [p \in Peers |-> [signalingState |-> "disconnected", signalName |-> NoName,
                               negotiationTimeoutId |-> 0, negotiationResolve |-> 0,
                               negotiationReject |-> 0, queue |-> <<>>,
                               dataChannel |-> "n/a", attempts |-> 0]]
    /\ pc = [p \in Peers |-> NoPc]
    /\ timers = [p \in Peers |-> {}]
    /\ promise = [p \in Peers |-> [k \in Attempts |-> [state |-> "none", origin |-> "none", kind |-> "none"]]]
    /\ conts = [p \in Peers |-> {}]
    /\ result = [p \in Peers |-> "none"]
    /\ hist = [sends |-> 0, from |-> "none", msg |-> Msg("none", 0, 0), removed |-> <<>>]
    /\ execs = {}

\* Nothing in the program listens to 'connected' and 'disconnected'.
NoListener == [on |-> FALSE, log |-> [p \in Peers |-> <<>>]]

Init ==
    /\ Start
    /\ relayed = TRUE
    /\ limit = [p \in Peers |-> MaxAttempts]
    /\ remote = 0
    /\ events = NoListener

\* pc[p].cands counts the candidates the connection gathered and
\* pc[p].answers the Answers of the connection handed to send.
\* The state as one record, so that the calls of one run compose.
Cur == [relay |-> relay, posts |-> posts, chan |-> chan, eng |-> eng, pc |-> pc,
        timers |-> timers, promise |-> promise, conts |-> conts,
        relayed |-> relayed, limit |-> limit, remote |-> remote, result |-> result, hist |-> hist,
        events |-> events, execs |-> execs]

Becomes(s) ==
    /\ relay' = s.relay
    /\ posts' = s.posts
    /\ chan' = s.chan
    /\ eng' = s.eng
    /\ pc' = s.pc
    /\ timers' = s.timers
    /\ promise' = s.promise
    /\ conts' = s.conts
    /\ relayed' = s.relayed
    /\ limit' = s.limit
    /\ remote' = s.remote
    /\ result' = s.result
    /\ hist' = s.hist
    /\ events' = s.events
    /\ execs' = s.execs

\* A suspended async function: k names the await it is suspended on.  held
\* is kept for the properties only: whether the relay held an offer of
\* another sender for the session when it handled an isOffering query.
Cont(k, body, att, then) == [k |-> k, body |-> body, att |-> att, then |-> then, held |-> FALSE]

OtherOfferHeld(sheet, signalName, id) ==
    \E i \in DOMAIN sheet :
        sheet[i].sn = signalName /\ sheet[i].from # id /\ sheet[i].msg.type = "offer"

NoBody == [kind |-> "none", items |-> <<>>]

\* ---------------------------------------------- SheetSignalingChannel
\* dispatchEvent of 'connected' and 'disconnected': seen by a listener only.
dispatchEvent(s, p, type) ==
    IF s.events.on
    THEN [s EXCEPT !.events.log[p] = Append(@, <<"event", type>>)]
    ELSE s

\* connect without its first line.
connectAgain(s, p, signalName) ==
    dispatchEvent([s EXCEPT !.chan[p].signalName = signalName,
                            !.chan[p].signalingState = "connected",
                            !.chan[p].connected = TRUE], p, "connected")

connect(s, p, signalName) ==
    IF s.chan[p].connected THEN s
    ELSE dispatchEvent([s EXCEPT !.chan[p].signalName = signalName,
                                 !.chan[p].signalingState = "connected",
                                 !.chan[p].connected = TRUE], p, "connected")

\* intervals counts the timers of setInterval that were not cleared.
stopPolling(s, p) ==
    IF s.chan[p].pollInterval
    THEN [s EXCEPT !.chan[p].pollInterval = FALSE, !.chan[p].intervals = @ - 1]
    ELSE s

\* startPolling without its first line.
startPollingAgain(s, p) ==
    [s EXCEPT !.chan[p].pollInterval = TRUE, !.chan[p].intervals = @ + 1]

startPolling(s, p) ==
    IF s.chan[p].pollInterval THEN s
    ELSE [s EXCEPT !.chan[p].pollInterval = TRUE, !.chan[p].intervals = @ + 1]

\* disconnect without its first line.
disconnectAgain(s, p) ==
    dispatchEvent(stopPolling([s EXCEPT !.chan[p].signalingState = "disconnected",
                                        !.chan[p].connected = FALSE], p),
                  p, "disconnected")

disconnect(s, p) ==
    IF ~s.chan[p].connected THEN s
    ELSE dispatchEvent(stopPolling([s EXCEPT !.chan[p].signalingState = "disconnected",
                                             !.chan[p].connected = FALSE], p),
                       p, "disconnected")

\* send without its first line: the POST leaves whatever _connected is.
sendUnguarded(s, p, message) ==
    IF s.relayed
    THEN [s EXCEPT !.posts = @ \cup {Row(s.chan[p].signalName, p, message)}]
    ELSE s

\* send: throws 'Not connected' before anything else when the channel is not
\* connected; otherwise the POST leaves.  send awaits the fetch and reads
\* nothing of the response.  The callers in SharingPeer catch or drop the
\* error, a direct caller gets it as the result.
send(s, p, message) ==
    IF ~s.chan[p].connected
    THEN [s EXCEPT !.result[p] = "Not connected"]
    ELSE IF s.relayed
         THEN [s EXCEPT !.posts = @ \cup {Row(s.chan[p].signalName, p, message)}]
         ELSE s

\* A GET of the channel: the relay runs doGet, the response is awaited.
\* Of the response body the continuation keeps what its code reads:
\* pollMessages the array, isOffering the field isOffering (an array has
\* none), deleteOwnMessages nothing.
fetchGet(s, p, recipientId, cont) ==
    LET r == doGet(s.relay, s.chan[p].signalName, recipientId)
        read == IF cont.k = "pollMessages" THEN r.body
                ELSE IF cont.k = "isOffering" THEN [r.body EXCEPT !.items = <<>>]
                ELSE NoBody
    IN IF s.relayed
       THEN [s EXCEPT !.relay = r.sheet,
                      !.conts[p] = @ \cup {[cont EXCEPT !.body = read,
                          !.held = cont.k = "isOffering" /\
                                   OtherOfferHeld(s.relay, s.chan[p].signalName, p)]}]
       ELSE [s EXCEPT !.conts[p] = @ \cup {cont}]

\* isOffering that takes any response of the relay for a yes.
isOfferingUnlessError(body) == body.kind # "error"

\* isOffering, from the response body: data.isOffering || false
isOfferingResult(body) == body.kind = "object" /\ body.isOffering

channelStartAnswering(s, p) ==
    IF s.chan[p].signalingState # "connected" THEN s ELSE startPolling(s, p)

channelStartOffering(s, p, offer) ==
    IF s.chan[p].signalingState # "connected" THEN s
    ELSE send(startPolling(s, p), p, offer)

\* ------------------------------------------------------------ SharingPeer
isConnected(s, p) == s.pc[p].gen # 0 /\ s.pc[p].connectionState = "connected"

disconnectPeer(s, p) ==
    [s EXCEPT !.eng[p].dataChannel = "n/a", !.pc[p] = NoPc]

initializePeerConnection(s, p, isInitiator, gen) ==
    LET s1 == disconnectPeer(s, p) IN
    [s1 EXCEPT !.pc[p] = [gen |-> gen, signalingState |-> "stable", local |-> FALSE,
                          remote |-> FALSE, connectionState |-> "new",
                          applied |-> <<>>, cands |-> 0, answers |-> 0],
               !.eng[p].dataChannel = IF isInitiator THEN "connecting" ELSE "n/a"]

connectSignalingChannel(s, p, signalName) ==
    IF s.chan[p].signalName = signalName /\ isConnected(s, p) THEN s
    ELSE LET s1 == connect(s, p, signalName) IN
         [s1 EXCEPT !.eng[p].signalName = signalName,
                    !.eng[p].signalingState = "connected"]

Pending(s, p, k) == k # 0 /\ s.promise[p][k].state = "pending"

Settle(s, p, k, how) ==
    IF Pending(s, p, k) THEN [s EXCEPT !.promise[p][k].state = how] ELSE s

clearNegotiationTimeout(s, p) ==
    LET id == s.eng[p].negotiationTimeoutId IN
    IF id # 0
    THEN [s EXCEPT !.timers[p] = @ \ {id}, !.eng[p].negotiationTimeoutId = 0]
    ELSE s

\* stopNegotiation, lines 91-93, and what the caller does after its await.
stopNegotiationEnd(s, p, then) ==
    LET s1 == [s EXCEPT !.eng[p].negotiationResolve = 0,
                        !.eng[p].negotiationReject = 0,
                        !.eng[p].signalingState = "connected"]
    IN IF then = "disconnectPeer" THEN disconnectPeer(s1, p) ELSE s1

\* A rejected promise of an attempt that startSignaling awaits runs the catch
\* of startSignaling: stopNegotiation() again, after the rejecting code.
RECURSIVE stopNegotiation(_, _, _, _)
stopNegotiationReject(s, p, then) ==
    LET k == s.eng[p].negotiationReject IN
    IF k = 0 THEN s     \* this.negotiationReject is null: TypeError, the call throws
    ELSE LET s1 == stopNegotiationEnd(Settle(s, p, k, "rejected: Negotiation rejected"), p, then) IN
         IF Pending(s, p, k) /\ s.promise[p][k].origin = "startSignaling"
         THEN stopNegotiation(s1, p, FALSE, "none")
         ELSE s1

stopNegotiation(s, p, success, then) ==
    LET s1 == stopPolling(clearNegotiationTimeout(s, p), p) IN
    IF success
    THEN stopNegotiationEnd(Settle(s1, p, s1.eng[p].negotiationResolve, "resolved"), p, then)
    ELSE IF s1.eng[p].negotiationReject # 0
         THEN IF s1.chan[p].connected
              THEN fetchGet(s1, p, NoId, Cont("stopNegotiation/deleteOwnMessages", NoBody, 0, then))
              ELSE stopNegotiationReject(s1, p, then)
         ELSE stopNegotiationEnd(s1, p, then)

\* reject(err) as the last statement of a callback.
reject(s, p, k, why) ==
    IF Pending(s, p, k)
    THEN LET s1 == Settle(s, p, k, why) IN
         IF s.promise[p][k].origin = "startSignaling"
         THEN stopNegotiation(s1, p, FALSE, "none")
         ELSE s1
    ELSE s

\* The timeout callback without its assignment of the state.
timeoutEndKeepsState(s, p, k) ==
    reject(s, p, k,
           IF s.promise[p][k].kind = "offering" THEN "rejected: Offering timeout"
                                              ELSE "rejected: Answering timeout")

\* The negotiation timeout callback after deleteOwnMessages.
timeoutEnd(s, p, k) ==
    reject([s EXCEPT !.eng[p].signalingState = "connected"], p, k,
           IF s.promise[p][k].kind = "offering" THEN "rejected: Offering timeout"
                                              ELSE "rejected: Answering timeout")

\* The negotiation timeout callback of attempt k.
timeoutCallback(s, p, k) ==
    LET s1 == stopPolling([s EXCEPT !.timers[p] = @ \ {k},
                                    !.eng[p].negotiationTimeoutId = 0], p) IN
    IF s1.chan[p].connected
    THEN fetchGet(s1, p, NoId, Cont("timeout/deleteOwnMessages", NoBody, k, "none"))
    ELSE timeoutEnd(s1, p, k)

newAttempt(s, p, kind, origin, isInitiator) ==
    LET k == s.eng[p].attempts + 1
        s1 == initializePeerConnection([s EXCEPT !.eng[p].signalingState = kind], p, isInitiator, k)
    IN [s1 EXCEPT !.eng[p].attempts = k,
                  !.eng[p].negotiationResolve = k,
                  !.eng[p].negotiationReject = k,
                  !.eng[p].negotiationTimeoutId = k,
                  !.timers[p] = @ \cup {k},
                  !.promise[p][k] = [state |-> "pending", origin |-> origin, kind |-> kind]]

startOffering(s, p, origin) ==
    LET s1 == newAttempt(s, p, "offering", origin, TRUE) IN
    [s1 EXCEPT !.conts[p] = @ \cup {Cont("createOffer", NoBody, s1.eng[p].attempts, "none")}]

startAnswering(s, p, origin) ==
    channelStartAnswering(newAttempt(s, p, "answering", origin, FALSE), p)

\* handleSignalingMessage of an engine that yields to the Offer of another
\* offerer: the Offer is taken while offering as it is while answering.
handleOfferWhileOffering(s, p, message) ==
    LET conn == s.pc[p]
        awaitSetRemote == [s EXCEPT !.conts[p] = @ \cup
            {Cont("setRemoteDescription", [kind |-> "message", items |-> <<message>>], conn.gen, "none")}]
    IN
    IF message.type = "offer" /\ s.eng[p].signalingState \in {"answering", "offering"}
    THEN IF conn.gen = 0 THEN s ELSE awaitSetRemote
    ELSE IF message.type = "answer" /\ s.eng[p].signalingState = "offering"
    THEN IF conn.gen = 0 \/ conn.signalingState # "have-local-offer" THEN s ELSE awaitSetRemote
    ELSE IF message.type = "candidate"
    THEN IF conn.gen = 0 THEN s
         ELSE IF conn.remote
              THEN [s EXCEPT !.pc[p].applied = Append(@, message)]
              ELSE [s EXCEPT !.eng[p].queue = Append(@, message)]
    ELSE s

\* handleSignalingMessage up to its first await on the peer connection.
handleSignalingMessage(s, p, message) ==
    LET conn == s.pc[p]
        awaitSetRemote == [s EXCEPT !.conts[p] = @ \cup
            {Cont("setRemoteDescription", [kind |-> "message", items |-> <<message>>], conn.gen, "none")}]
    IN
    IF message.type = "offer" /\ s.eng[p].signalingState = "answering"
    THEN IF conn.gen = 0 \/ conn.signalingState # "stable" THEN s ELSE awaitSetRemote
    ELSE IF message.type = "answer" /\ s.eng[p].signalingState = "offering"
    THEN IF conn.gen = 0 \/ conn.signalingState # "have-local-offer" THEN s ELSE awaitSetRemote
    ELSE IF message.type = "candidate"
    THEN IF conn.gen = 0 THEN s      \* TypeError on null, caught and logged
         ELSE IF conn.remote
              THEN [s EXCEPT !.pc[p].applied = Append(@, message)]
              ELSE [s EXCEPT !.eng[p].queue = Append(@, message)]
    ELSE s

\* The flush of the queue taking the most recent candidate first.
RECURSIVE Reverse(_)
Reverse(q) == IF q = <<>> THEN <<>> ELSE Append(Reverse(Tail(q)), Head(q))

processQueuedNewestFirst(s, p) ==
    [s EXCEPT !.pc[p].applied = @ \o Reverse(s.eng[p].queue), !.eng[p].queue = <<>>]

processQueuedRemoteCandidates(s, p) ==
    [s EXCEPT !.pc[p].applied = @ \o s.eng[p].queue, !.eng[p].queue = <<>>]

\* handleSignalingMessage after setRemoteDescription(message) has resolved
\* on the connection that was current when it was called: the queue is
\* flushed; for an Offer createAnswer and setLocalDescription follow, and
\* the connection is in have-remote-offer until they have resolved.
afterSetRemoteDescription(s, p, message) ==
    LET s1 == processQueuedRemoteCandidates([s EXCEPT !.pc[p].remote = TRUE], p) IN
    IF message.type = "offer"
    THEN [s1 EXCEPT !.pc[p].signalingState = "have-remote-offer",
                    !.conts[p] = @ \cup {Cont("createAnswer",
                        [kind |-> "message", items |-> <<message>>], s1.pc[p].gen, "none")}]
    ELSE [s1 EXCEPT !.pc[p].signalingState = "stable"]

\* The local description set and the Answer kept to the engine.
afterSetLocalDescriptionNoSend(s, p) ==
    [s EXCEPT !.pc[p].signalingState = "stable", !.pc[p].local = TRUE]

\* handleSignalingMessage after createAnswer and setLocalDescription(answer)
\* have resolved: the Answer is sent.
afterSetLocalDescription(s, p) ==
    LET s2 == [s EXCEPT !.pc[p].signalingState = "stable", !.pc[p].local = TRUE] IN
    IF s2.chan[p].connected
    THEN send([s2 EXCEPT !.pc[p].answers = @ + 1], p, Msg("answer", s2.pc[p].gen, 0))
    ELSE s2                    \* send throws 'Not connected', caught

\* pollMessages: one 'message' event per returned record, in response order.
RECURSIVE dispatchMessages(_, _, _, _)
dispatchMessages(s, p, items, i) ==
    IF i > Len(items) THEN s
    ELSE dispatchMessages(handleSignalingMessage(s, p, items[i].message), p, items, i + 1)

Resume(s, p, c) == [s EXCEPT !.conts[p] = @ \ {c}]

CanStart(p) ==
    eng[p].attempts + Cardinality({c \in conts[p] : c.k = "isOffering"}) < limit[p]

\* ------------------------------------------------------- ExtensionBlocks
\* 'Already offering' / 'Already answering' / 'Already connected' return
\* without touching the peer.
MakeSignal(p, signalName) ==
    IF eng[p].signalName = signalName /\ eng[p].signalingState = "offering"
    THEN UNCHANGED vars
    ELSE /\ CanStart(p)
         /\ Becomes(startOffering(connectSignalingChannel(Cur, p, signalName), p, "makeSignal"))

ConnectSignal(p, signalName) ==
    IF eng[p].signalName = signalName /\ eng[p].signalingState = "answering"
    THEN UNCHANGED vars
    ELSE /\ CanStart(p)
         /\ Becomes(startAnswering(connectSignalingChannel(Cur, p, signalName), p, "connectSignal"))

\* startSignaling up to the await of isOffering()
startSignaling(s, p, signalName) ==
    LET s1 == connectSignalingChannel(s, p, signalName) IN
    IF s1.chan[p].connected
    THEN fetchGet(s1, p, p, Cont("isOffering", NoBody, 0, "none"))
    ELSE startOffering(s1, p, "startSignaling")

ConnectPeer(p, signalName) ==
    IF eng[p].signalName = signalName /\ isConnected(Cur, p)
    THEN UNCHANGED vars
    ELSE /\ CanStart(p)
         /\ Becomes(startSignaling(Cur, p, signalName))

StopSignaling(p) ==
    /\ eng[p].attempts > 0
    /\ Becomes(stopNegotiation(Cur, p, FALSE, "none"))

DisconnectPeer(p) ==
    /\ eng[p].attempts > 0
    /\ Becomes(stopNegotiation(Cur, p, FALSE, "disconnectPeer"))

\* ------------------------------------------------ timers and completions
IsOfferingReturn(p) ==
    \E c \in conts[p] :
        /\ c.k = "isOffering"
        /\ Becomes(IF isOfferingResult(c.body)
                   THEN startAnswering(Resume(Cur, p, c), p, "startSignaling")
                   ELSE startOffering(Resume(Cur, p, c), p, "startSignaling"))

CreateOfferDone(p) ==
    \E c \in conts[p] :
        /\ c.k = "createOffer"
        /\ LET s == Resume(Cur, p, c) IN
           Becomes(IF s.pc[p].gen # c.att
                   THEN reject(s, p, c.att, "rejected: error")
                   ELSE channelStartOffering(
                            [s EXCEPT !.pc[p].signalingState = "have-local-offer",
                                      !.pc[p].local = TRUE],
                            p, Msg("offer", c.att, 0)))

SetRemoteDescriptionDone(p) ==
    \E c \in conts[p] :
        /\ c.k = "setRemoteDescription"
        /\ LET s == Resume(Cur, p, c)
               message == c.body.items[1]
           IN Becomes(IF \/ s.pc[p].gen # c.att
                         \/ message.type = "answer" /\ s.pc[p].signalingState # "have-local-offer"
                      THEN s
                      ELSE afterSetRemoteDescription(s, p, message))

\* createAnswer / setLocalDescription reject on a closed connection and on
\* one that is not in have-remote-offer; the catch logs.
CreateAnswerDone(p) ==
    \E c \in conts[p] :
        /\ c.k = "createAnswer"
        /\ LET s == Resume(Cur, p, c) IN
           Becomes(IF s.pc[p].gen # c.att \/ s.pc[p].signalingState # "have-remote-offer"
                   THEN s
                   ELSE afterSetLocalDescription(s, p))

NegotiationTimeout(p) ==
    \E k \in timers[p] : Becomes(timeoutCallback(Cur, p, k))

TimeoutDeleteReturn(p) ==
    \E c \in conts[p] :
        /\ c.k = "timeout/deleteOwnMessages"
        /\ Becomes(timeoutEnd(Resume(Cur, p, c), p, c.att))

StopDeleteReturn(p) ==
    \E c \in conts[p] :
        /\ c.k = "stopNegotiation/deleteOwnMessages"
        /\ Becomes(stopNegotiationReject(Resume(Cur, p, c), p, c.then))

PollsInFlight(p) == Cardinality({c \in conts[p] : c.k = "pollMessages"})

\* A tick of the poll interval: pollMessages up to the await of fetch.
PollTick(p) ==
    /\ chan[p].pollInterval
    /\ chan[p].connected
    /\ PollsInFlight(p) < MaxPollsInFlight
    /\ Becomes(fetchGet(Cur, p, p, Cont("pollMessages", NoBody, 0, "none")))

PollReturn(p) ==
    \E c \in conts[p] :
        /\ c.k = "pollMessages"
        /\ Becomes(dispatchMessages(Resume(Cur, p, c), p, c.body.items, 1))

\* onicecandidate: the connection has a local description and gathers.
IceCandidate(p) ==
    /\ pc[p].gen # 0
    /\ pc[p].local
    /\ pc[p].cands < MaxCands
    /\ LET s == [Cur EXCEPT !.pc[p].cands = @ + 1] IN
       Becomes(IF s.chan[p].connected
               THEN send(s, p, Msg("candidate", s.pc[p].gen, s.pc[p].cands))
               ELSE s)

\* send whose fetch rejects, propagated to the caller of send: the chain of
\* createOffer in startOffering rejects the attempt, any other caller gets
\* the error.
sendFailsSurfaced(s, p, r) ==
    LET s1 == [s EXCEPT !.posts = @ \ {r}] IN
    IF r.msg.type = "offer"
    THEN reject(s1, p, r.msg.gen, "rejected: error")
    ELSE [s1 EXCEPT !.result[p] = "Error sending message"]

\* send whose fetch rejects (the request r never reaches the relay): the
\* catch of send logs a warning and send returns.
sendFails(s, p, r) == [s EXCEPT !.posts = @ \ {r}]

SendFails(p) ==
    \E r \in posts :
        /\ r.from = p
        /\ Becomes(sendFails(Cur, p, r))

PostArrives ==
    \E r \in posts :
        /\ relay' = doPost(relay, r.sn, r.from, r.msg)
        /\ posts' = posts \ {r}
        /\ UNCHANGED <<chan, eng, pc, timers, promise, conts, relayed, limit, remote, result, hist,
                       events, execs>>

\* Two peers, each driven by its blocks, and the relay of gas/main.js.
Next ==
    \/ \E p \in Peers, n \in SignalNames : MakeSignal(p, n)
    \/ \E p \in Peers, n \in SignalNames : ConnectSignal(p, n)
    \/ \E p \in Peers, n \in SignalNames : ConnectPeer(p, n)
    \/ \E p \in Peers : IsOfferingReturn(p)
    \/ \E p \in Peers : CreateOfferDone(p)
    \/ \E p \in Peers : SetRemoteDescriptionDone(p)
    \/ \E p \in Peers : CreateAnswerDone(p)
    \/ \E p \in Peers : NegotiationTimeout(p)
    \/ \E p \in Peers : TimeoutDeleteReturn(p)
    \/ \E p \in Peers : StopDeleteReturn(p)
    \/ \E p \in Peers : PollTick(p)
    \/ \E p \in Peers : PollReturn(p)
    \/ \E p \in Peers : IceCandidate(p)
    \/ \E p \in Peers : SendFails(p)
    \/ PostArrives

Spec == Init /\ [][Next]_vars

\* ------------------------------------------------- the engine taken alone
\* One engine with its transport; the rows other peers leave in the relay
\* are the environment's choice, and so is what the peer connection reports.
Engine == "A"
RemotePeer == "B"
RemoteMessages == {Msg("offer", 1, 0), Msg("answer", 1, 0), Msg("candidate", 1, 1)}
\* What the query of isOffering can come back with and be false: the fetch
\* rejected or the status was not OK (kind "error"), or JSON without a
\* field isOffering (the array doGet returns).
FailedQueries == {[kind |-> "error", items |-> <<>>],
                  [kind |-> "array", items |-> <<>>]}

RemoteBodies == FailedQueries \cup
                {[kind |-> "object", items |-> <<>>, isOffering |-> TRUE],
                 [kind |-> "object", items |-> <<>>, isOffering |-> FALSE]}

\* startSignaling after its await of isOffering(), which came back as body.
IsOfferingReturns(p, c, body) ==
    /\ c \in conts[p]
    /\ c.k = "isOffering"
    /\ Becomes(IF isOfferingResult(body)
               THEN startAnswering(Resume(Cur, p, c), p, "startSignaling")
               ELSE startOffering(Resume(Cur, p, c), p, "startSignaling"))

\* isOffering() returns what the relay of the environment answered.
IsOfferingReturnRemote(p) ==
    \E c \in conts[p], body \in RemoteBodies : IsOfferingReturns(p, c, body)

PollTickRemote(p) ==
    /\ chan[p].pollInterval
    /\ chan[p].connected
    /\ PollsInFlight(p) < MaxPollsInFlight
    /\ remote > 0
    /\ \E m \in RemoteMessages :
          Becomes([Cur EXCEPT
              !.remote = @ - 1,
              !.conts[p] = @ \cup {Cont("pollMessages",
                  [kind |-> "array", items |-> <<[from |-> RemotePeer, message |-> m]>>],
                  0, "none")}])

Established(p) == pc[p].gen # 0 /\ pc[p].local /\ pc[p].remote

\* onconnectionstatechange with connectionState 'connected'
ConnectionStateConnected(p) ==
    /\ Established(p)
    /\ pc[p].connectionState = "new"
    /\ Becomes(disconnect(stopNegotiation([Cur EXCEPT !.pc[p].connectionState = "connected"],
                                          p, TRUE, "none"), p))

\* The data channel opens: dataChannelStateChanged 'open', and its listener
\* in ExtensionBlocks calls peer.stopNegotiation().
DataChannelOpen(p) ==
    /\ Established(p)
    /\ eng[p].dataChannel # "open"
    /\ Becomes(stopNegotiation([Cur EXCEPT !.eng[p].dataChannel = "open"], p, FALSE,
                               "dataChannelStateChanged"))

InitEngine ==
    /\ Start
    /\ relayed = FALSE
    /\ limit = [p \in Peers |-> IF p = Engine THEN MaxEngineAttempts ELSE 0]
    /\ remote = MaxRemote
    /\ events = NoListener

NextEngine ==
    \/ \E n \in SignalNames : MakeSignal(Engine, n)
    \/ \E n \in SignalNames : ConnectSignal(Engine, n)
    \/ \E n \in SignalNames : ConnectPeer(Engine, n)
    \/ StopSignaling(Engine)
    \/ DisconnectPeer(Engine)
    \/ IsOfferingReturnRemote(Engine)
    \/ CreateOfferDone(Engine)
    \/ SetRemoteDescriptionDone(Engine)
    \/ CreateAnswerDone(Engine)
    \/ NegotiationTimeout(Engine)
    \/ TimeoutDeleteReturn(Engine)
    \/ StopDeleteReturn(Engine)
    \/ PollTickRemote(Engine)
    \/ PollReturn(Engine)
    \/ IceCandidate(Engine)
    \/ ConnectionStateConnected(Engine)
    \/ DataChannelOpen(Engine)

SpecEngine == InitEngine /\ [][NextEngine]_vars

\* ---------------------------------- the engine called with two session names
\* One engine driven by connectPeer and stopSignaling with the names room1
\* and room2; the remote peer leaves one message.
InitNames ==
    /\ Start
    /\ relayed = FALSE
    /\ limit = [p \in Peers |-> IF p = Engine THEN MaxNameAttempts ELSE 0]
    /\ remote = 1
    /\ events = NoListener

NextNames ==
    \/ \E n \in {"room1", "room2"} : ConnectPeer(Engine, n)
    \/ StopSignaling(Engine)
    \/ IsOfferingReturnRemote(Engine)
    \/ CreateOfferDone(Engine)
    \/ SetRemoteDescriptionDone(Engine)
    \/ CreateAnswerDone(Engine)
    \/ NegotiationTimeout(Engine)
    \/ TimeoutDeleteReturn(Engine)
    \/ StopDeleteReturn(Engine)
    \/ PollTickRemote(Engine)
    \/ PollReturn(Engine)
    \/ ConnectionStateConnected(Engine)

SpecNames == InitNames /\ [][NextNames]_vars

\* --------------------------------------------- the transports taken alone
\* Two SheetSignalingChannel objects called directly, and the relay.  hist
\* keeps the last write the relay handled with the rows it removed, and
\* counts the sends.
MessageTypes == {"offer", "answer", "candidate"}

TConnect(p, n) ==
    /\ ~chan[p].connected
    /\ Becomes(connect(Cur, p, n))

TStartAnswering(p) ==
    /\ chan[p].connected
    /\ ~chan[p].pollInterval
    /\ Becomes(channelStartAnswering(Cur, p))

TSend(p, type) ==
    /\ hist.sends < MaxSends
    /\ Becomes(send(IF chan[p].connected THEN [Cur EXCEPT !.hist.sends = @ + 1] ELSE Cur,
                    p, Msg(type, 0, hist.sends + 1)))

TIsOffering(p) ==
    IF chan[p].connected
    THEN Becomes(fetchGet(Cur, p, p, Cont("isOffering", NoBody, 0, "caller")))
    ELSE Becomes([Cur EXCEPT !.result[p] = "false"])

TIsOfferingReturn(p) ==
    \E c \in conts[p] :
        /\ c.k = "isOffering"
        /\ Becomes([Resume(Cur, p, c) EXCEPT
               !.result[p] = IF isOfferingResult(c.body) THEN "true" ELSE "false"])

\* deleteOwnMessages: nothing of the response is read
TDeleteOwnMessages(p) ==
    /\ chan[p].connected
    /\ Becomes([Cur EXCEPT !.relay = doGet(relay, chan[p].signalName, NoId).sheet])

TDisconnect(p) ==
    /\ chan[p].connected
    /\ Becomes(disconnect(Cur, p))

\* pollMessages after the response: one 'message' event per record; the
\* channel keeps nothing of them.
TPollReturn(p) ==
    \E c \in conts[p] :
        /\ c.k = "pollMessages"
        /\ Becomes(Resume(Cur, p, c))

\* pollMessages whose fetch fails after the relay handled the request (the
\* response is lost, not OK, or not JSON): the catch logs a warning and
\* nothing is dispatched.
TPollFails(p) ==
    \E c \in conts[p] :
        /\ c.k = "pollMessages"
        /\ Becomes([Resume(Cur, p, c) EXCEPT !.result[p] = "Error polling messages"])

Range(f) == {f[i] : i \in DOMAIN f}

RelayWrite ==
    \E r \in posts :
        Becomes([Cur EXCEPT
            !.relay = doPost(relay, r.sn, r.from, r.msg),
            !.posts = @ \ {r},
            !.hist = [@ EXCEPT !.from = r.from, !.msg = r.msg,
                               !.removed = SelectSeq(relay, LAMBDA row :
                                   row \notin Range(doPost(relay, r.sn, r.from, r.msg)))]])

InitTransport ==
    /\ Start
    /\ relayed = TRUE
    /\ limit = [p \in Peers |-> 0]
    /\ remote = 0
    /\ events = NoListener

NextTransport ==
    \/ \E p \in Peers, n \in SignalNames : TConnect(p, n)
    \/ \E p \in Peers : TStartAnswering(p)
    \/ \E p \in Peers, t \in MessageTypes : TSend(p, t)
    \/ \E p \in Peers : TIsOffering(p)
    \/ \E p \in Peers : TIsOfferingReturn(p)
    \/ \E p \in Peers : TDeleteOwnMessages(p)
    \/ \E p \in Peers : TDisconnect(p)
    \/ \E p \in Peers : PollTick(p)
    \/ \E p \in Peers : TPollReturn(p)
    \/ \E p \in Peers : TPollFails(p)
    \/ RelayWrite

SpecTransport == InitTransport /\ [][NextTransport]_vars

\* ------------------------------------------ the message handler taken alone
\* One engine in one attempt; the 'message' events of its transport carry
\* messages the environment chooses, numbered in their order of arrival.
Arrives(p) ==
    /\ remote > 0
    /\ chan[p].pollInterval
    /\ \E type \in MessageTypes :
          Becomes(handleSignalingMessage([Cur EXCEPT !.remote = @ - 1], p,
                                         Msg(type, 1, MaxDelivered - remote + 1)))

InitHandler ==
    /\ Start
    /\ relayed = FALSE
    /\ limit = [p \in Peers |-> IF p = Engine THEN 1 ELSE 0]
    /\ remote = MaxDelivered
    /\ events = NoListener

NextHandler ==
    \/ \E n \in SignalNames : MakeSignal(Engine, n)
    \/ \E n \in SignalNames : ConnectSignal(Engine, n)
    \/ CreateOfferDone(Engine)
    \/ Arrives(Engine)
    \/ SetRemoteDescriptionDone(Engine)
    \/ CreateAnswerDone(Engine)

SpecHandler == InitHandler /\ [][NextHandler]_vars

\* ------------------------------------- the life cycle of the transports alone
\* Two SheetSignalingChannel objects with a listener for 'connected' and
\* 'disconnected'; the log of each holds its calls of connect and disconnect
\* and the events the listener received, in order.
ChannelNames == SignalNames \cup {"room2"}

CConnect(p, n) ==
    /\ Len(events.log[p]) < MaxLog
    /\ Becomes(connect([Cur EXCEPT !.events.log[p] = Append(@, <<"connect", n>>)], p, n))

CDisconnect(p) ==
    /\ Len(events.log[p]) < MaxLog
    /\ Becomes(disconnect([Cur EXCEPT !.events.log[p] = Append(@, <<"disconnect", "">>)], p))

\* startAnswering and stopNegotiation of the channel, called in any state.
CStartAnswering(p) == \E s \in {channelStartAnswering(Cur, p)} : Becomes(s)

CStopNegotiation(p) == \E s \in {stopPolling(Cur, p)} : Becomes(s)

InitChannel ==
    /\ Start
    /\ relayed = FALSE
    /\ limit = [p \in Peers |-> 0]
    /\ remote = 0
    /\ events = [on |-> TRUE, log |-> [p \in Peers |-> <<>>]]

NextChannel ==
    \/ \E p \in Peers, n \in ChannelNames : CConnect(p, n)
    \/ \E p \in Peers : CDisconnect(p)
    \/ \E p \in Peers : TStartAnswering(p)
    \/ \E p \in Peers : CStartAnswering(p)
    \/ \E p \in Peers : CStopNegotiation(p)

SpecChannel == InitChannel /\ [][NextChannel]_vars

\* -------------------------------------------------- the relay taken alone
\* The sheet with the requests of two clients of one session; conts[id]
\* holds the response of the last poll request of id.
RelayPost(from, type) ==
    /\ hist.sends < MaxRows
    /\ Becomes([Cur EXCEPT
           !.relay = doPost(relay, "room1", from, Msg(type, 0, hist.sends + 1)),
           !.hist.sends = @ + 1])

\* A row whose Message cell is not JSON, put into the sheet by hand.
SheetEdited(from) ==
    /\ hist.sends < MaxRows
    /\ \A i \in DOMAIN relay : relay[i].msg # Undecodable
    /\ Becomes([Cur EXCEPT !.relay = Append(@, Row("room1", from, Undecodable)),
                           !.hist.sends = @ + 1])

RelayGet(id) ==
    \E r \in {doGet(relay, "room1", id)} :
        Becomes([Cur EXCEPT !.relay = r.sheet,
                            !.conts[id] = {Cont("pollMessages", r.body, 0, "none")}])

InitRelay ==
    /\ Start
    /\ relayed = TRUE
    /\ limit = [p \in Peers |-> 0]
    /\ remote = 0
    /\ events = NoListener

NextRelay ==
    \/ \E p \in Peers, t \in MessageTypes : RelayPost(p, t)
    \/ \E p \in Peers : SheetEdited(p)
    \/ \E p \in Peers : RelayGet(p)

SpecRelay == InitRelay /\ [][NextRelay]_vars

\* ------------------------------------------ overlapping executions of doGet
\* Apps Script runs the requests of a web app concurrently and doGet takes
\* no lock: an execution reads the sheet once (getValues) and then deletes
\* rows of the live sheet by the index each had in what it read.  One step
\* is the read, one visit of a row, or the response with its dispatch by
\* pollMessages.  The log of a client holds what it sent and the 'message'
\* events it dispatched.
Execution(id, no, data) ==
    [id |-> id, no |-> no, data |-> data, i |-> Len(data), messages |-> <<>>,
     answerSent |-> FALSE, threw |-> FALSE]

RacePost(from, type) ==
    /\ hist.sends < MaxRaceRows
    /\ Becomes([Cur EXCEPT
           !.relay = doPost(relay, "room1", from, Msg(type, 0, hist.sends + 1)),
           !.hist.sends = @ + 1,
           !.events.log[from] = Append(@, <<"sent", ToString(hist.sends + 1)>>)])

\* A poll request reaches the relay: lines 20-26.
GetBegins(id) ==
    /\ Len(events.log[id]) < MaxLog
    /\ \E no \in 1 .. MaxExecs :
          /\ \A e \in execs : ~(e.id = id /\ e.no = no)
          /\ Becomes([Cur EXCEPT !.execs = @ \cup {Execution(id, no, relay)}])

\* One pass of the loop body, lines 29-44.  deleteRow of a row below the
\* last row with data removes an empty row of the grid, or throws when the
\* grid ends above it.
GetVisits(id) ==
    \E e \in execs : \E outOfBounds \in BOOLEAN :
        /\ e.id = id
        /\ e.i >= 1
        /\ ~e.threw
        /\ LET row == e.data[e.i]
               seen == e.answerSent \/ row.msg.type = "answer"
               next == [e EXCEPT !.i = @ - 1]
           IN Becomes(
               IF row.sn # "room1" THEN [Cur EXCEPT !.execs = (@ \ {e}) \cup {next}]
               ELSE IF row.from # id /\ ~seen
               THEN IF e.i <= Len(relay)
                    THEN [Cur EXCEPT
                            !.relay = RemoveAt(@, e.i),
                            !.execs = (@ \ {e}) \cup
                               {[next EXCEPT !.messages = Append(@, [from |-> row.from,
                                                                    message |-> row.msg])]}]
                    ELSE IF outOfBounds
                    THEN [Cur EXCEPT !.execs = (@ \ {e}) \cup {[e EXCEPT !.threw = TRUE]}]
                    ELSE [Cur EXCEPT
                            !.execs = (@ \ {e}) \cup
                               {[next EXCEPT !.messages = Append(@, [from |-> row.from,
                                                                    message |-> row.msg])]}]
               ELSE [Cur EXCEPT !.execs = (@ \ {e}) \cup {[next EXCEPT !.answerSent = seen]}])

\* pollMessages with the response: one 'message' event per record; an
\* execution that threw gives no JSON and nothing is dispatched.
RECURSIVE Dispatched(_)
Dispatched(messages) ==
    IF messages = <<>> THEN <<>>
    ELSE <<<<"message", ToString(Head(messages).message.n)>>>> \o Dispatched(Tail(messages))

GetResponds(id) ==
    \E e \in execs :
        /\ e.id = id
        /\ e.i < 1 \/ e.threw
        /\ Becomes([Cur EXCEPT
               !.execs = @ \ {e},
               !.events.log[id] = @ \o (IF e.threw THEN <<>> ELSE Dispatched(e.messages))])

InitRace ==
    /\ Start
    /\ relayed = TRUE
    /\ limit = [p \in Peers |-> 0]
    /\ remote = 0
    /\ events = [on |-> TRUE, log |-> [p \in Peers |-> <<>>]]

NextRace ==
    \/ \E p \in Peers, t \in {"offer", "candidate"} : RacePost(p, t)
    \/ \E p \in Peers : GetBegins(p)
    \/ \E p \in Peers : GetVisits(p)
    \/ \E p \in Peers : GetResponds(p)

SpecRace == InitRace /\ [][NextRace]_vars

\* ------------------------------ an answerer polling what its peer wrote
\* The remote peer's POSTs reach the relay in the order of its sends; the
\* field n of a message is its place in that order.
RemoteSends(type) ==
    /\ hist.sends < MaxRemoteSends
    /\ Becomes([Cur EXCEPT
           !.relay = doPost(relay, "room1", RemotePeer, Msg(type, 1, hist.sends + 1)),
           !.hist.sends = @ + 1])

InitCandidates ==
    /\ Start
    /\ relayed = TRUE
    /\ limit = [p \in Peers |-> IF p = Engine THEN 1 ELSE 0]
    /\ remote = 0
    /\ events = NoListener

NextCandidates ==
    \/ ConnectSignal(Engine, "room1")
    \/ \E t \in {"offer", "candidate"} : RemoteSends(t)
    \/ PollTick(Engine)
    \/ PollReturn(Engine)
    \/ SetRemoteDescriptionDone(Engine)
    \/ CreateAnswerDone(Engine)
    \/ PostArrives

SpecCandidates == InitCandidates /\ [][NextCandidates]_vars

\* ------------------------------------------------- FileSignalingChannel
\* The directory of the session is the sequence relay of the files in it,
\* one row per file; the name of a file is made of the type of the message
\* and the id of the sender.
FileName(type, id) == <<type, id>>

NameOf(row) == FileName(row.msg.type, row.from)

HasFile(dir, name) == \E i \in DOMAIN dir : NameOf(dir[i]) = name

listSignalFiles(dir) == [i \in DOMAIN dir |-> NameOf(dir[i])]

\* getFileHandle(filename, {create: true}), write, close: a file of that
\* name is overwritten.
saveToFile(dir, from, message) ==
    IF HasFile(dir, FileName(message.type, from))
    THEN [i \in DOMAIN dir |->
            IF NameOf(dir[i]) = FileName(message.type, from)
            THEN Row("room1", from, message) ELSE dir[i]]
    ELSE Append(dir, Row("room1", from, message))

loadFromFile(dir, name) == (CHOOSE i \in DOMAIN dir : NameOf(dir[i]) = name)

deleteFile(dir, name) == SelectSeq(dir, LAMBDA row : NameOf(row) # name)

FileConnect(p) ==
    /\ ~chan[p].connected
    /\ Becomes(dispatchEvent(startPolling([Cur EXCEPT !.chan[p].connected = TRUE], p),
                             p, "connected"))

FileSend(p, type) ==
    /\ hist.sends < MaxFileSends
    /\ Becomes(IF ~chan[p].connected
               THEN [Cur EXCEPT !.result[p] = "Not connected"]
               ELSE [Cur EXCEPT
                       !.relay = saveToFile(relay, p, Msg(type, 0, hist.sends + 1)),
                       !.hist.sends = @ + 1])

\* pollMessages up to the list of the files, line 82.
FilePollBegins(p) ==
    /\ chan[p].pollInterval
    /\ \A e \in execs : e.id # p
    /\ Becomes([Cur EXCEPT !.execs = @ \cup
           {[id |-> p, files |-> listSignalFiles(relay), i |-> 1, deleting |-> FALSE]}])

\* One file of the list, lines 84-89: a file of the peer itself is passed
\* over, a file that is gone loads as null, any other is dispatched.
FilePollLoads(p) ==
    \E e \in execs :
        /\ e.id = p
        /\ ~e.deleting
        /\ e.i <= Len(e.files)
        /\ LET name == e.files[e.i] IN
           Becomes(IF name[2] = p \/ ~HasFile(relay, name)
                   THEN [Cur EXCEPT !.execs = (@ \ {e}) \cup {[e EXCEPT !.i = @ + 1]}]
                   ELSE [Cur EXCEPT
                           !.execs = (@ \ {e}) \cup {[e EXCEPT !.deleting = TRUE]},
                           !.events.log[p] = Append(@,
                               <<"message", ToString(relay[loadFromFile(relay, name)].msg.n)>>)])

\* await this.deleteFile(file), line 90: removeEntry of the name.
FilePollDeletes(p) ==
    \E e \in execs :
        /\ e.id = p
        /\ e.deleting
        /\ Becomes([Cur EXCEPT
               !.relay = deleteFile(relay, e.files[e.i]),
               !.execs = (@ \ {e}) \cup {[e EXCEPT !.i = @ + 1, !.deleting = FALSE]}])

FilePollEnds(p) ==
    \E e \in execs :
        /\ e.id = p
        /\ e.i > Len(e.files)
        /\ Becomes([Cur EXCEPT !.execs = @ \ {e}])

InitFile ==
    /\ Start
    /\ relayed = TRUE
    /\ limit = [p \in Peers |-> 0]
    /\ remote = 0
    /\ events = [on |-> TRUE, log |-> [p \in Peers |-> <<>>]]

NextFile ==
    \/ \E p \in Peers : FileConnect(p)
    \/ \E p \in Peers, t \in {"offer", "candidate"} : FileSend(p, t)
    \/ \E p \in Peers : FilePollBegins(p)
    \/ \E p \in Peers : FilePollLoads(p)
    \/ \E p \in Peers : FilePollDeletes(p)
    \/ \E p \in Peers : FilePollEnds(p)

SpecFile == InitFile /\ [][NextFile]_vars

\* ------------------------------------- the relay shared by two sessions
\* The sheet is one for every session: a record of session room2 is written
\* while one peer of room1 writes and the other polls.
OfSession(sheet, signalName) == SelectSeq(sheet, LAMBDA row : row.sn = signalName)

SessionPost(from) ==
    /\ Len(SelectSeq(events.log[from], LAMBDA ev : ev = <<"sent", "0">>)) < MaxSessionRows
    /\ Becomes([Cur EXCEPT
           !.relay = doPost(relay, "room2", from, Msg("offer", 0, 0)),
           !.events.log[from] = Append(@, <<"sent", "0">>)])

NextSessions ==
    \/ \E t \in {"offer", "answer"} : RacePost(Engine, t)
    \/ SessionPost(Engine)
    \/ GetBegins(RemotePeer)
    \/ GetVisits(RemotePeer)
    \/ GetResponds(RemotePeer)

SpecSessions == InitRace /\ [][NextSessions]_vars

\* ================================================================ claims

\* C1: in the two-peer scenario the offerer's polling retrieves the Answer
\* the answerer wrote: a poll pass of an offering peer over a relay that
\* holds an Answer of the other peer returns that Answer.
AnswerHeldFor(sheet, signalName, id) ==
    \E i \in DOMAIN sheet :
        sheet[i].sn = signalName /\ sheet[i].from # id /\ sheet[i].msg.type = "answer"

ReturnsAnswer(c) ==
    /\ c.k = "pollMessages"
    /\ \E i \in DOMAIN c.body.items : c.body.items[i].message.type = "answer"

C1_OffererRetrievesAnswer ==
    [][\A p \in Peers :
          (/\ PollTick(p)
           /\ eng[p].signalingState = "offering"
           /\ AnswerHeldFor(relay, chan[p].signalName, p))
          => \E c \in conts'[p] \ conts[p] : ReturnsAnswer(c)]_vars

\* C2: the two-peer offer/answer exchange leaves no record of the session
\* behind: the read of the offering peer that finds the Answer in the relay
\* consumes the Answer and every record of the answerer, so that the relay
\* holds no record of another sender for the session after it.
C2_OffererReadConsumesAll ==
    [][\A p \in Peers :
          (/\ PollTick(p)
           /\ eng[p].signalingState = "offering"
           /\ AnswerHeldFor(relay, chan[p].signalName, p))
          => \A i \in DOMAIN relay' :
                 relay'[i].sn = chan[p].signalName => relay'[i].from = p]_vars

\* C5: after the negotiation timeout of an offering engine that received no
\* Answer has run to its end, the engine is in state connected and, once the
\* peer's requests have all reached the relay, the relay holds no record
\* authored by that peer.
OfferingTimedOut(p) ==
    /\ \E k \in Attempts : promise[p][k].state = "rejected: Offering timeout"
    /\ ~pc[p].remote
    /\ conts[p] = {}
    /\ timers[p] = {}
    /\ \A r \in posts : r.from # p

C5_NoOwnRecordAfterOfferingTimeout ==
    \A p \in Peers :
        OfferingTimedOut(p) =>
            /\ eng[p].signalingState = "connected"
            /\ \A i \in DOMAIN relay : relay[i].from # p

\* C9: a startSignaling whose isOffering query found the Offer of another
\* peer in the relay makes the engine the answerer and creates no Offer,
\* and the query leaves that Offer in the relay for the polling.
C9_AnswersWhenOfferHeld ==
    [][\A p \in Peers :
          /\ \A n \in SignalNames :
                (ConnectPeer(p, n) /\ CanStart(p) /\ OtherOfferHeld(relay, n, p))
                => OtherOfferHeld(relay', n, p)
          /\ \A c \in conts[p] :
                (c.k = "isOffering" /\ c.held /\ c \notin conts'[p])
                => /\ eng'[p].signalingState = "answering"
                   /\ \A d \in conts'[p] : d.k # "createOffer"]_vars

\* C6: a poll pass returns to the polling transport every record of the
\* session another sender wrote, and removes it from the relay, so that each
\* message is dispatched once and not again.
Returned(c, row) ==
    /\ c.k = "pollMessages"
    /\ \E j \in DOMAIN c.body.items :
          c.body.items[j].from = row.from /\ c.body.items[j].message = row.msg

C6_PollDeliversEachOnce ==
    [][\A p \in Peers :
          PollTick(p) =>
              \A i \in DOMAIN relay :
                  (relay[i].sn = chan[p].signalName /\ relay[i].from # p)
                  => /\ \E c \in conts'[p] \ conts[p] : Returned(c, relay[i])
                     /\ \A j \in DOMAIN relay' : relay'[j] # relay[i]]_vars

C8_IsOfferingTellsOfferHeld ==
    [][\A p \in Peers : \A c \in conts[p] :
          (c.k = "isOffering" /\ c.then = "caller" /\ c \notin conts'[p])
          => result'[p] = IF c.held THEN "true" ELSE "false"]_vars

\* C3: the engine is never offering or answering without a way out: its
\* negotiation timer is pending, or the timeout callback or a
\* stopNegotiation that will settle the attempt awaits the relay.
WayOut(p) ==
    \/ timers[p] # {}
    \/ \E c \in conts[p] : c.k = "timeout/deleteOwnMessages"
    \/ /\ eng[p].negotiationReject # 0
       /\ \E c \in conts[p] : c.k = "stopNegotiation/deleteOwnMessages"

C4_ConnectedResolves ==
    [][\A p \in Peers :
          /\ (/\ ConnectionStateConnected(p)
               /\ eng[p].signalingState \in {"offering", "answering"})
              => /\ promise'[p][pc[p].gen].state = "resolved"
                 /\ eng'[p].negotiationTimeoutId = 0
                 /\ eng'[p].signalingState = "connected"
          /\ \A c \in conts[p] :
                (/\ c.k = "stopNegotiation/deleteOwnMessages"
                 /\ c.then = "dataChannelStateChanged"
                 /\ c \notin conts'[p])
                => \A k \in Attempts :
                       promise[p][k].state = "pending" =>
                           promise'[p][k].state # "rejected: Negotiation rejected"]_vars

\* C10: connectPeer with the name the engine is already offering or
\* answering is a no-op: the engine, its timers, its promises, its peer
\* connection and its requests stay as they are.
C10_SecondConnectPeerIsNoOp ==
    [][\A p \in Peers : \A n \in SignalNames :
          (/\ ConnectPeer(p, n)
           /\ eng[p].signalName = n
           /\ eng[p].signalingState \in {"offering", "answering"})
          => UNCHANGED <<eng, timers, promise, pc, conts, posts>>]_vars

\* C11: no candidate is applied to a peer connection without a remote
\* description; the queue holds the candidates in their order of arrival;
\* setting the remote description applies the queued candidates in that
\* order and empties the queue; a candidate arriving later is applied at once.
InArrivalOrder(q) ==
    \A i \in DOMAIN q : \A j \in DOMAIN q : i < j => q[i].n < q[j].n

C11_CandidatesAfterRemoteInOrder ==
    [][\A p \in Peers :
          /\ pc'[p].applied # <<>> => pc'[p].remote
          /\ InArrivalOrder(eng'[p].queue)
          /\ (~pc[p].remote /\ pc'[p].remote)
             => pc'[p].applied = eng[p].queue /\ eng'[p].queue = <<>>
          /\ (pc[p].remote /\ pc'[p].remote /\ pc'[p].gen = pc[p].gen)
             => eng'[p].queue = <<>>]_vars

\* Two candidates arrived, then the description: both are applied in order.
C11_TwoQueuedThenApplied ==
    /\ remote = MaxDelivered - 3
    /\ pc[Engine].remote
    /\ eng[Engine].queue = <<>>
    /\ Len(pc[Engine].applied) = 2
    /\ pc[Engine].applied[1].n = 1
    /\ pc[Engine].applied[2].n = 2

\* C12: when the disconnectPeer block has run to its end on an engine that
\* was connected, offering or answering, the engine state is disconnected,
\* no negotiation timer is set, the peer connection is closed and the
\* transport is disconnected.
DisconnectPeerEnds(p) ==
    \/ DisconnectPeer(p) /\ \A c \in conts'[p] : c.then # "disconnectPeer"
    \/ \E c \in conts[p] : c.then = "disconnectPeer" /\ c \notin conts'[p]

C12_DisconnectLeavesDisconnected ==
    [][\A p \in Peers :
          (/\ eng[p].signalingState \in {"connected", "offering", "answering"}
           /\ DisconnectPeerEnds(p))
          => /\ eng'[p].signalingState = "disconnected"
             /\ eng'[p].negotiationTimeoutId = 0
             /\ pc'[p] = NoPc
             /\ ~chan'[p].connected]_vars

\* C13: the candidate queue is empty after a negotiation attempt is
\* abandoned: after the step that rejects the promise of the latest attempt
\* (timeout expiry, stopNegotiation) and at the start of a new attempt, so that no
\* candidate of an abandoned attempt reaches a later peer connection.
Abandons(p) ==
    \/ eng'[p].attempts > eng[p].attempts
    \/ /\ eng[p].attempts > 0
       /\ promise[p][eng[p].attempts].state = "pending"
       /\ promise'[p][eng[p].attempts].state \in
              {"rejected: Offering timeout", "rejected: Answering timeout",
               "rejected: Negotiation rejected"}

C13_QueueEmptyAfterAbandon ==
    [][\A p \in Peers : Abandons(p) => eng'[p].queue = <<>>]_vars

\* C14: once stopNegotiation() or disconnect() has returned (polling is
\* stopped, the engine is back in state connected and no stop or timeout
\* is still running), the response of a poll that was in flight changes
\* nothing: no message of it is applied to the peer connection or queued.
Stopped(p) ==
    /\ ~chan[p].pollInterval
    /\ eng[p].signalingState = "connected"
    /\ \A c \in conts[p] : c.k \notin {"stopNegotiation/deleteOwnMessages",
                                       "timeout/deleteOwnMessages"}

C14_LatePollHasNoEffect ==
    [][\A p \in Peers :
          (PollReturn(p) /\ Stopped(p))
          => /\ eng'[p] = eng[p]
             /\ pc'[p] = pc[p]
             /\ conts'[p] \subseteq conts[p]]_vars

\* C15: when the timeout callback of the latest attempt has run to its end,
\* the poll timer is stopped, the promise of the attempt is rejected with
\* the timeout error and the engine state is connected; and the transport
\* starts no poll pass while the latest attempt is timed out.
TimedOut(st) == st \in {"rejected: Offering timeout", "rejected: Answering timeout"}

TimeoutEnds(p, k) ==
    /\ k = eng[p].attempts
    /\ \/ /\ NegotiationTimeout(p)
          /\ k \in timers[p] \ timers'[p]
          /\ \A c \in conts'[p] : ~(c.k = "timeout/deleteOwnMessages" /\ c.att = k)
       \/ /\ TimeoutDeleteReturn(p)
          /\ \E c \in conts[p] \ conts'[p] :
                c.k = "timeout/deleteOwnMessages" /\ c.att = k

C15_TimeoutStopsAndRejects ==
    [][\A p \in Peers :
          /\ \A k \in Attempts :
                TimeoutEnds(p, k)
                => /\ ~chan'[p].pollInterval
                   /\ TimedOut(promise'[p][k].state)
                   /\ eng'[p].signalingState = "connected"
          /\ (eng[p].attempts > 0 /\ TimedOut(promise[p][eng[p].attempts].state))
             => ~PollTickRemote(p)]_vars

\* C16: the negotiation timer of an attempt that has succeeded is not
\* pending any more, so that it never fires after the success.
C16_NoTimerAfterSuccess ==
    \A p \in Peers : \A k \in Attempts :
        promise[p][k].state = "resolved" => k \notin timers[p]

\* C17: a read pass of reader p returns and deletes every record of the
\* session that p did not write, the Answer and the Candidates included,
\* except the offers older than an answer of the session, which it neither
\* returns nor deletes.
OfferAfterAnswer(sheet, i) ==
    /\ sheet[i].msg.type = "offer"
    /\ \E j \in DOMAIN sheet :
          j > i /\ sheet[j].sn = sheet[i].sn /\ sheet[j].msg.type = "answer"

C17_ReadPassReturnsAndDeletes ==
    [][\A p \in Peers :
          PollTick(p) =>
              \A i \in DOMAIN relay :
                  (relay[i].sn = chan[p].signalName /\ relay[i].from # p)
                  => LET returned == \E c \in conts'[p] \ conts[p] : Returned(c, relay[i])
                         kept == \E j \in DOMAIN relay' : relay'[j] = relay[i]
                     IN IF OfferAfterAnswer(relay, i)
                        THEN ~returned /\ kept
                        ELSE returned /\ ~kept]_vars

\* C18: a poll pass that fails loses no record: every record the relay put
\* in the response that failed is still in the relay for the next pass.
C18_FailedPollLosesNothing ==
    [][\A p \in Peers : \A c \in conts[p] :
          (TPollFails(p) /\ c.k = "pollMessages" /\ c \notin conts'[p])
          => \A i \in DOMAIN c.body.items :
                 \E j \in DOMAIN relay' :
                     /\ relay'[j].from = c.body.items[i].from
                     /\ relay'[j].msg = c.body.items[i].message]_vars

\* C19: deleteOwnMessages() removes from the relay exactly the records of
\* the transport's session that the transport wrote, and leaves the others.
C19_DeletesExactlyOwn ==
    [][\A p \in Peers :
          TDeleteOwnMessages(p)
          => relay' = SelectSeq(relay, LAMBDA row :
                          ~(row.sn = chan[p].signalName /\ row.from = p))]_vars

\* C20: send(message) on a transport that is not connected fails with
\* 'Not connected', writes nothing to the relay and changes nothing of the
\* transport's state.
C20_SendNotConnectedFails ==
    [][\A p \in Peers : \A type \in MessageTypes :
          (TSend(p, type) /\ ~chan[p].connected)
          => /\ result'[p] = "Not connected"
             /\ posts' = posts
             /\ relay' = relay
             /\ chan' = chan]_vars

\* a send was refused on a transport that had been connected and has a
\* session name, while the other transport is connected
C20_SendRefused ==
    \E p \in Peers : \E q \in Peers \ {p} :
        /\ result[p] = "Not connected"
        /\ ~chan[p].connected
        /\ chan[p].signalName # NoName
        /\ chan[q].connected

\* C21: a network failure during send on a connected transport is not
\* surfaced: send completes normally, the transport stays connected and the
\* engine's negotiation (state, pending promise, timeout) is unchanged.
C21_SendFailureNotSurfaced ==
    [][\A p \in Peers :
          SendFails(p)
          => /\ chan'[p] = chan[p]
             /\ eng'[p] = eng[p]
             /\ pc'[p] = pc[p]
             /\ promise'[p] = promise[p]
             /\ timers'[p] = timers[p]
             /\ conts'[p] = conts[p]
             /\ result'[p] = result[p]
             /\ relay' = relay]_vars

\* the Offer of an offering peer was lost on its way (nobody else has acted
\* on the session): the transport is connected, the attempt still pending
\* with its timeout armed
C21_OfferLostAttemptContinues ==
    \E p \in Peers : \E q \in Peers \ {p} :
        /\ eng[p].signalingState = "offering"
        /\ pc[p].signalingState = "have-local-offer"
        /\ pc[p].cands = 0
        /\ chan[p].connected
        /\ Pending(Cur, p, eng[p].attempts)
        /\ eng[p].attempts \in timers[p]
        /\ posts = {}
        /\ relay = <<>>
        /\ eng[q].attempts = 0
        /\ conts[q] = {}

C23_ConnectWhenConnectedIsNoOp ==
    [][\A p \in Peers : \A n \in ChannelNames :
          (CConnect(p, n) /\ chan[p].connected)
          => /\ chan'[p] = chan[p]
             /\ events'.log[p] = Append(events.log[p], <<"connect", n>>)]_vars

\* a polling transport connected to room1 was asked to connect to room1
\* again and then to room2
C23_ConnectedTwiceMore ==
    \E p \in Peers :
        /\ events.log[p] = << <<"connect", "room1">>, <<"event", "connected">>,
                              <<"connect", "room1">>, <<"connect", "room2">> >>
        /\ chan[p].pollInterval

\* C24: disconnect() is idempotent: the first call on a connected transport
\* stops the poll timer, marks the transport disconnected and dispatches
\* exactly one 'disconnected' event; a call while disconnected changes
\* nothing and dispatches no event.
C24_DisconnectIdempotent ==
    [][\A p \in Peers :
          CDisconnect(p)
          => IF chan[p].connected
             THEN /\ ~chan'[p].connected
                  /\ chan'[p].signalingState = "disconnected"
                  /\ ~chan'[p].pollInterval
                  /\ events'.log[p] = events.log[p] \o
                         << <<"disconnect", "">>, <<"event", "disconnected">> >>
             ELSE /\ chan'[p] = chan[p]
                  /\ events'.log[p] = Append(events.log[p], <<"disconnect", "">>)]_vars

\* a polling transport was disconnected and then asked to disconnect again
C24_DisconnectedTwice ==
    \E p \in Peers :
        /\ events.log[p] = << <<"connect", "room1">>, <<"event", "connected">>,
                              <<"disconnect", "">>, <<"event", "disconnected">>,
                              <<"disconnect", "">> >>
        /\ ~chan[p].connected
        /\ ~chan[p].pollInterval

\* C25: a read pass over a session that holds a record whose payload cannot
\* be decoded skips that record without deleting it and still returns every
\* other deliverable record (here: of a session without Answer, every
\* decodable record of another sender).
HoldsUndecodable(sheet) == \E i \in DOMAIN sheet : sheet[i].msg = Undecodable

HoldsAnswer(sheet) == \E i \in DOMAIN sheet : sheet[i].msg.type = "answer"

C25_UndecodableSkippedRestReturned ==
    [][\A id \in Peers :
          (RelayGet(id) /\ HoldsUndecodable(relay) /\ ~HoldsAnswer(relay))
          => \A i \in DOMAIN relay :
                 IF relay[i].msg = Undecodable
                 THEN \E j \in DOMAIN relay' : relay'[j] = relay[i]
                 ELSE relay[i].from # id
                      => \E c \in conts'[id] : Returned(c, relay[i])]_vars

\* C26: with two poll requests of one transport in flight at once, no relay
\* record is dispatched to the transport's 'message' listeners more than
\* once, and, once the requests have completed, every record that is no
\* longer in the relay has been dispatched.
DispatchedTimes(p, n) ==
    Cardinality({k \in DOMAIN events.log[p] : events.log[p][k] = <<"message", ToString(n)>>})

C26_OverlappingPollsIdempotent ==
    /\ \A p \in Peers : \A n \in 1 .. hist.sends : DispatchedTimes(p, n) <= 1
    /\ execs = {}
       => \A n \in 1 .. hist.sends :
              \/ \E i \in DOMAIN relay : relay[i].msg.n = n
              \/ \E p \in Peers : DispatchedTimes(p, n) = 1

\* C27: a transport never dispatches to its own 'message' listeners a record
\* it authored: every message of a response that pollMessages dispatches has
\* a sender id different from the id of the polling transport.
C27_NeverDispatchesOwn ==
    \A p \in Peers : \A c \in conts[p] :
        c.k = "pollMessages" => \A i \in DOMAIN c.body.items : c.body.items[i].from # p

\* a poll of a peer returned a record of the other peer, taken from between
\* records of its own that are still in the relay
C27_PolledAmongOwn ==
    \E p \in Peers : \E c \in conts[p] :
        /\ c.k = "pollMessages"
        /\ c.body.items # <<>>
        /\ Len(relay) >= 2
        /\ relay[1].from = p /\ relay[1].sn = chan[p].signalName
        /\ relay[Len(relay)].from = p /\ relay[Len(relay)].sn = chan[p].signalName

\* C28: when two peers have both become offerers for the same session the
\* collision is not corrected: each engine ignores the other's Offer (no
\* remote description is set, no Answer is sent), neither gets what a
\* connection needs, and an attempt ends only by the offering timeout, in
\* state connected.  The two attempts are the first of each peer, as long
\* as neither has started another one.
BothOfferers ==
    \A p \in Peers : eng[p].attempts = 1 /\ promise[p][1].kind = "offering"

C28_CollisionNotCorrected ==
    BothOfferers =>
        /\ \A r \in posts : r.msg.type # "answer"
        /\ \A i \in DOMAIN relay : relay[i].msg.type # "answer"
        /\ \A p \in Peers :
              /\ ~pc[p].remote
              /\ ~Established(p)
              /\ \A c \in conts[p] : c.k # "setRemoteDescription"
              /\ promise[p][1].state \in {"pending", "rejected: Offering timeout"}
              /\ promise[p][1].state # "pending" => eng[p].signalingState = "connected"

\* both offerers have polled, the relay has nothing left of the two Offers,
\* and both attempts have ended by timeout
C28_BothTimedOut ==
    /\ BothOfferers
    /\ \A p \in Peers :
          /\ promise[p][1].state = "rejected: Offering timeout"
          /\ eng[p].signalingState = "connected"
          /\ pc[p].signalingState = "have-local-offer"
          /\ conts[p] = {}
    /\ posts = {}

\* C29: an answering engine that receives a remote Offer sets it as remote
\* description, creates its answer and hands exactly that Answer to the
\* transport, and its state stays answering through this; an Offer received
\* in any other state sets no remote description and sends no Answer.
Delivers(p, c, type) ==
    /\ PollReturn(p)
    /\ c.k = "pollMessages"
    /\ c \notin conts'[p]
    /\ Len(c.body.items) = 1
    /\ c.body.items[1].message.type = type

Completes(p, c) ==
    /\ SetRemoteDescriptionDone(p)
    /\ c.k = "setRemoteDescription"
    /\ c \notin conts'[p]
    /\ c.body.items[1].type = "offer"
    /\ c.att = pc[p].gen

AnswerReady(p, c) ==
    /\ CreateAnswerDone(p)
    /\ c.k = "createAnswer"
    /\ c \notin conts'[p]
    /\ c.att = pc[p].gen
    /\ pc[p].signalingState = "have-remote-offer"

Awaited(p, c, k) ==
    \E d \in conts'[p] :
        /\ d.k = k
        /\ d.att = pc[p].gen
        /\ d.body.items[1] = IF c.k = "pollMessages" THEN c.body.items[1].message
                                                     ELSE c.body.items[1]

NotTaken(p) ==
    /\ pc'[p] = pc[p]
    /\ \A d \in conts'[p] : d.k = "setRemoteDescription" => d \in conts[p]

C29_OfferAnsweredOnlyWhenAnswering ==
    [][\A p \in Peers : \A c \in conts[p] :
          /\ Delivers(p, c, "offer") =>
                IF eng[p].signalingState = "answering"
                THEN Awaited(p, c, "setRemoteDescription") /\ eng'[p].signalingState = "answering"
                ELSE NotTaken(p)
          /\ Completes(p, c) =>
                /\ pc'[p].remote
                /\ Awaited(p, c, "createAnswer")
                /\ eng'[p].signalingState = eng[p].signalingState
          /\ AnswerReady(p, c) =>
                /\ pc'[p].local
                /\ pc'[p].answers = pc[p].answers + 1
                /\ eng'[p].signalingState = eng[p].signalingState]_vars

\* C29, amended: the Offer is taken when the engine is answering and its
\* connection is in signaling state stable, and is dropped otherwise; the
\* Answer is handed to the transport when the transport is still connected
\* at the time the local description is set.
C29_OfferAnsweredWhenStableAndConnected ==
    [][\A p \in Peers : \A c \in conts[p] :
          /\ Delivers(p, c, "offer") =>
                IF eng[p].signalingState = "answering" /\ pc[p].signalingState = "stable"
                THEN Awaited(p, c, "setRemoteDescription") /\ eng'[p].signalingState = "answering"
                ELSE NotTaken(p)
          /\ Completes(p, c) =>
                /\ pc'[p].remote
                /\ Awaited(p, c, "createAnswer")
                /\ eng'[p].signalingState = eng[p].signalingState
          /\ AnswerReady(p, c) =>
                /\ pc'[p].local
                /\ pc'[p].signalingState = "stable"
                /\ pc'[p].answers = pc[p].answers + (IF chan[p].connected THEN 1 ELSE 0)
                /\ eng'[p].signalingState = eng[p].signalingState]_vars

\* an answering engine has set an Offer and handed its Answer to the
\* connected transport
C29_AnsweredWhileAnswering ==
    \E p \in Peers :
        /\ eng[p].signalingState = "answering"
        /\ pc[p].remote /\ pc[p].local
        /\ pc[p].answers = 1
        /\ chan[p].connected

\* C30: a Candidate received while no negotiation is in progress (the engine
\* is neither offering nor answering, or has no peer connection) is dropped:
\* it is not applied to a peer connection and not left in the candidate
\* queue, and the engine is unchanged.
C30_CandidateOutsideNegotiationDropped ==
    [][\A p \in Peers : \A c \in conts[p] :
          (/\ Delivers(p, c, "candidate")
           /\ \/ eng[p].signalingState \notin {"offering", "answering"}
              \/ pc[p].gen = 0)
          => /\ pc'[p] = pc[p]
             /\ eng'[p] = eng[p]]_vars

\* C31: isOffering() returns false, without throwing and without changing
\* the transport, when the transport is not connected or when the query
\* fails (network error, status not OK, a response without the field
\* isOffering); startSignaling then proceeds as offerer.
ProceedsAsOfferer(p) ==
    /\ eng'[p].attempts = eng[p].attempts + 1
    /\ eng'[p].signalingState = "offering"
    /\ promise'[p][eng'[p].attempts] =
           [state |-> "pending", origin |-> "startSignaling", kind |-> "offering"]
    /\ \E d \in conts'[p] : d.k = "createOffer" /\ d.att = eng'[p].attempts
    /\ chan'[p] = chan[p]

C31_FailedQueryMeansOfferer ==
    [][\A p \in Peers :
          /\ \A c \in conts[p] : \A body \in FailedQueries :
                IsOfferingReturns(p, c, body) => ProceedsAsOfferer(p)
          /\ \A n \in {"room1", "room2"} :
                (/\ ConnectPeer(p, n)
                 /\ CanStart(p)
                 /\ ~(eng[p].signalName = n /\ isConnected(Cur, p))
                 /\ ~chan[p].connected
                 /\ chan[p].signalName = n /\ isConnected(Cur, p))
                => ProceedsAsOfferer(p)]_vars

\* the engine is offering through a transport that is not connected: the
\* query of this attempt was answered false without a request
C31_OffererWithoutQuery ==
    \E p \in Peers :
        /\ eng[p].signalingState = "offering"
        /\ ~chan[p].connected
        /\ Pending(Cur, p, eng[p].attempts)
        /\ promise[p][eng[p].attempts].origin = "startSignaling"
        /\ \E c \in conts[p] : c.k = "createOffer" /\ c.att = eng[p].attempts

\* C32: whenever the engine is offering or answering, the signalName of the
\* engine equals the signalName of its transport, for every sequence of
\* connectPeer calls with differing names, timeouts and stopNegotiation
\* calls.
C32_NamesAgreeWhileNegotiating ==
    \A p \in Peers :
        eng[p].signalingState \in {"offering", "answering"}
            => eng[p].signalName = chan[p].signalName

\* C33: in every reachable state an engine has at most one pending
\* negotiation timeout, and a pending timeout implies that the engine is
\* offering or answering; a timer of an earlier attempt never fires during
\* a later attempt.
C33_OneTimeoutOfTheCurrentAttempt ==
    /\ [](\A p \in Peers :
             /\ Cardinality(timers[p]) <= 1
             /\ timers[p] # {} => eng[p].signalingState \in {"offering", "answering"})
    /\ [][\A p \in Peers : \A k \in timers[p] \ timers'[p] :
             NegotiationTimeout(p) => k = eng[p].attempts]_vars

\* C34: a stopNegotiation() suspended at an await while a new attempt is
\* started affects only the attempt it was called for: when it resumes it
\* does not reject or clear the promise of the new attempt, and it does not
\* set the state to connected while the new attempt is offering or
\* answering.  stopNegotiation clears negotiationTimeoutId before its await,
\* so a timeout id of the current attempt tells that the attempt was started
\* after the suspended call.
C34_SuspendedStopLeavesNewAttempt ==
    [][\A p \in Peers : \A c \in conts[p] :
          (/\ c.k = "stopNegotiation/deleteOwnMessages"
           /\ conts'[p] = conts[p] \ {c}
           /\ StopDeleteReturn(p)
           /\ eng[p].negotiationTimeoutId = eng[p].attempts
           /\ Pending(Cur, p, eng[p].attempts)
           /\ eng[p].signalingState \in {"offering", "answering"})
          => /\ promise'[p][eng[p].attempts] = promise[p][eng[p].attempts]
             /\ eng'[p].negotiationResolve = eng[p].negotiationResolve
             /\ eng'[p].negotiationReject = eng[p].negotiationReject
             /\ eng'[p].signalingState = eng[p].signalingState]_vars

C36_IsOfferingLeavesRelay ==
    [][\A p \in Peers : TIsOffering(p) => relay' = relay]_vars

\* C37: a relay read (doGet) or answer write (doPost) for one session never
\* removes a record of a different session, also when several relay
\* requests execute concurrently and each deletes rows by the index of its
\* own earlier snapshot.  No request of the steps judged here is for room2.
C37_OtherSessionRowsKept ==
    [][(\/ \E p \in Peers, t \in {"offer", "answer"} : RacePost(p, t)
        \/ \E p \in Peers : GetVisits(p))
       => OfSession(relay', "room2") = OfSession(relay, "room2")]_vars

\* C38: the candidates sent by one peer are applied to the connection of
\* the other peer in the order in which they were sent, within one poll
\* pass and across passes.
C38_CandidatesAppliedInSendOrder ==
    \A p \in Peers : \A i, j \in DOMAIN pc[p].applied :
        i < j => pc[p].applied[i].n < pc[p].applied[j].n

\* C39: an answering engine sends at most one Answer per negotiation
\* attempt, however many Offers are delivered during that attempt.
C39_OneAnswerPerAttempt ==
    \A p \in Peers :
        eng[p].signalingState = "answering" => pc[p].answers <= 1

\* C40: with FileSignalingChannel every message a peer sends is delivered
\* to the other peer: two messages of the same type sent by the same sender
\* before the next poll of the receiver are both delivered, and a record is
\* deleted only after it was dispatched.  Stated on every state: a message
\* that was sent is in the directory or was dispatched.
C40_EverySentFileDelivered ==
    \A n \in 1 .. hist.sends :
        \/ \E i \in DOMAIN relay : relay[i].msg.n = n
        \/ \E p \in Peers : DispatchedTimes(p, n) >= 1

====
